---- MODULE Spec2Model ----
(***************************************************************************)
(* A model of avecado's vector-tile post-processors:                       *)
(*   - the unionizer (src/unnamed/part_001), which joins linestrings that  *)
(*     meet at a common end point, and                                     *)
(*   - the adminizer (src/src/post_process/adminizer.cpp), which stamps a  *)
(*     feature with a parameter of the lowest-indexed polygon it meets.    *)
(* Each processor is a sequential program; its position is kept in a pc    *)
(* variable and one action is one step of its loops.                       *)
(***************************************************************************)
EXTENDS Integers, Sequences, FiniteSets, TLC

\* ------------------------------------------------------------------ bounds
\* x coordinates of vertices range over 0..MaxCoord
MaxCoord == 2
\* max_iterations is drawn from 0..MaxIter
MaxIter == 2
\* linestrings of the two-feature inputs have 2..MaxLen vertices
MaxLen == 3

\* --------------------------------------------------------------- constants
\* std::numeric_limits<unsigned char>::max()
MAX_SCORE == 255

\* angle_union_sample_ratio is kept in hundredths: the default .1
DEFAULT_RATIO == 10

\* and the greatest ratio allowed, .5
GREATEST_RATIO == 50

\* std::numeric_limits<size_t>::max() is 2^64 - 1; it is held here at
\* 2^31 - 1, the greatest integer TLC computes with. It only stands for a
\* cap no run reaches.
SIZE_MAX == 2147483647

Null == "null"
Absent == "absent"
FRONT == "FRONT"
BACK == "BACK"
\* enum union_heuristic
GREEDY == "GREEDY"
OBTUSE == "OBTUSE"
ACUTE == "ACUTE"
\* enum tag_strategy
INTERSECT == "INTERSECT"
ACCUMULATE == "ACCUMULATE"

\* attribute keys, in the order std::set<string> iterates them
KeyOrder == <<"name", "oneway", "ref", "road">>
Keys == {KeyOrder[i] : i \in 1..Len(KeyOrder)}
\* attribute values, in mapnik::value's order (null sorts first)
ValueOrder == <<Null, "A1", "A2">>
Values == {"A1", "A2"}

VARIABLES
  \* ---- unionizer::process
  layer,      \* the layer being processed: a sequence of features
  config,     \* the unionizer's members (m_heuristic, m_strategy, ...)
  ptree,      \* the property tree create_unionizer is called with
  map,        \* the mapnik::Map process is called with: its current extent
  pc,         \* position in unionizer::process
  iter,       \* the loop counter i of unionizer::process
  scored,     \* the map<score_t, couple_t>, remaining entries in key order
  unioned,    \* the unordered_set of feature ids of union_candidates
  \* ---- history of the unionizer run (not program state)
  layer0,     \* the layer as it was on entry
  last,       \* what the last step did
  joins,      \* the join point of every splice done so far in this call
  merges,     \* per feature id: splices it took part in, this iteration
  passes,     \* the turns of the loop of process begun in this call
  returns     \* how each earlier call of process on this layer returned

uvars == <<layer, config, ptree, map, pc, iter, scored, unioned, layer0, last, joins, merges,
           passes, returns>>

VARIABLES
  \* ---- adminizer::process
  alayer,     \* the layer being processed
  aux,        \* the features of the auxiliary datasource, in its order
  entries,    \* the vector<entry> of process
  apc,        \* position in adminizer::process
  fi,         \* the feature the loop of process is at
  gi,         \* the geometry the loop of adminize_feature is at
  pending,    \* the values the running index query has yet to report
  m_index,    \* param_updater::m_index
  m_finished, \* param_updater::m_finished
  pass,       \* which call of adminizer::process on the layer this is
  \* ---- history of the adminizer run (not program state)
  alayer0,    \* the layer as it was on entry
  writes      \* per feature: the entry indices written, in order

avars == <<alayer, aux, entries, apc, fi, gi, pending, m_index, m_finished,
           pass, alayer0, writes>>

vars == <<uvars, avars>>

\* ------------------------------------------------------------ sequences
RemoveAt(s, k) == [j \in 1..(Len(s) - 1) |-> IF j < k THEN s[j] ELSE s[j + 1]]

Reverse(s) == [j \in 1..Len(s) |-> s[Len(s) + 1 - j]]

RECURSIVE SumSeq(_)
SumSeq(s) == IF s = <<>> THEN 0 ELSE Head(s) + SumSeq(Tail(s))

\* ------------------------------------------------------------ data model
\* a vertex of a mapnik geometry: coordinates and the path command
Vertex(x, y, cmd) == [x |-> x, y |-> y, cmd |-> cmd]

\* geometry_type::move_to / line_to
move_to(verts, x, y) == Append(verts, Vertex(x, y, "MoveTo"))

line_to(verts, x, y) == Append(verts, Vertex(x, y, "LineTo"))

\* a geometry built the usual way: move_to the first point, line_to the rest
MkGeom(type, pts) ==
  [type |-> type,
   verts |-> [j \in 1..Len(pts) |->
                Vertex(pts[j][1], pts[j][2], IF j = 1 THEN "MoveTo" ELSE "LineTo")]]

\* feature->has_key / get / put / put_new
has_key(feature, key) == feature.attrs[key] # Absent

get(feature, key) == IF has_key(feature, key) THEN feature.attrs[key] ELSE Null

put(feature, key, val) == [feature EXCEPT !.attrs[key] = val]

put_new(feature, key, val) == [feature EXCEPT !.attrs[key] = val]

num_geometries(feature) == Len(feature.paths)

\* mapnik::value ordering as the comparator uses it
ValueRank(v) == CHOOSE r \in 1..Len(ValueOrder) : ValueOrder[r] = v

ValueLess(a, b) == ValueRank(a) < ValueRank(b)

\* --------------------------------------------------------------- doubles
\* A double is kept as an exact fraction n/d in lowest terms, d > 0: the
\* rounding of floating point is left out. NaN is the fraction of
\* denominator 0.
RECURSIVE GCD(_, _)
GCD(a, b) == IF b = 0 THEN a ELSE GCD(b, a % b)

Abs(i) == IF i < 0 THEN -i ELSE i

Frac(n, d) ==
  LET g == GCD(Abs(n), Abs(d))
  IN IF d < 0 THEN [n |-> (-n) \div g, d |-> (-d) \div g]
     ELSE [n |-> n \div g, d |-> d \div g]

Double(i) == [n |-> i, d |-> 1]

NaN == [n |-> 0, d |-> 0]

Plus(p, q) == Frac(p.n * q.d + q.n * p.d, p.d * q.d)

Minus(p, q) == Frac(p.n * q.d - q.n * p.d, p.d * q.d)

Times(p, q) == Frac(p.n * q.n, p.d * q.d)

\* division by a double other than zero
Over(p, q) == Frac(p.n * q.d, p.d * q.n)

Less(p, q) == p.n * q.d < q.n * p.d

\* == 0 (false of NaN)
IsZero(p) == p.d # 0 /\ p.n = 0

\* abs, fabs
fabs(p) == [n |-> Abs(p.n), d |-> p.d]

\* the integer a double converts to: its fraction is discarded
Truncate(p) == IF p.n >= 0 THEN p.n \div p.d ELSE -((-p.n) \div p.d)

\* ---------------------------------------------------- curve_approximator
\* curve_approximator::sq_length_tolerance, .00001
sq_length_tolerance == Frac(1, 100000)

\* the constructor: the start point of the curve and the lengths to consume
curve_approximator(x, y, consume_x, consume_y) ==
  [m_x |-> x, m_y |-> y, m_consume_x |-> consume_x, m_consume_y |-> consume_y,
   m_total_length |-> Double(0), m_points |-> <<>>]

\* consume, "consumed too much x": the |offsets| cut down to the x left
limit_x(diff, consume_x) ==
  IF Less(Minus(consume_x, diff.x), Double(0))
  THEN [x |-> consume_x, y |-> Times(Over(diff.y, diff.x), consume_x)]
  ELSE diff

\* consume, "consumed too much y": the |offsets| cut down to the y left
limit_y(diff, consume_y) ==
  IF Less(Minus(consume_y, diff.y), Double(0))
  THEN [x |-> Times(Over(diff.x, diff.y), consume_y), y |-> consume_y]
  ELSE diff

\* consume, "give x and y their sign back"
signed(offset, diff) ==
  IF Less(offset, Double(0)) THEN Times(Double(-1), diff) ELSE diff

\* consume, the third member of the tuple put in m_points
sq_length(x_offset, y_offset) ==
  Plus(Times(x_offset, x_offset), Times(y_offset, y_offset))

\* consume, its return: the approximator as it is left and the value
\* returned (whether there is length left to consume)
length_left(appx) ==
  [appx |-> appx,
   more |-> Less(Double(0), appx.m_consume_x) /\ Less(Double(0), appx.m_consume_y)]

\* consume from "update the amount you've consumed" on
emplace_back(appx, diff, x_offset, y_offset) ==
  length_left([appx EXCEPT !.m_consume_x = Minus(@, diff.x),
                           !.m_consume_y = Minus(@, diff.y),
                           !.m_points = Append(@, <<x_offset, y_offset,
                                                    sq_length(x_offset, y_offset)>>),
                           !.m_total_length = Plus(@, sq_length(x_offset, y_offset))])

\* consume once the two |offsets| are cut down to what is left to consume
consume_diff(appx, x_offset, y_offset, diff) ==
  emplace_back(appx, diff, signed(x_offset, diff.x), signed(y_offset, diff.y))

\* consume once the two offsets are known
consume_offsets(appx, x_offset, y_offset) ==
  consume_diff(appx, x_offset, y_offset,
               limit_y(limit_x([x |-> fabs(x_offset), y |-> fabs(y_offset)],
                               appx.m_consume_x),
                       appx.m_consume_y))

\* curve_approximator::consume: the approximator after the point and the
\* value returned (whether there is length left to consume)
consume(appx, x, y) ==
  consume_offsets(appx, Minus(appx.m_x, x), Minus(appx.m_y, y))

RECURSIVE weighted_sum(_, _, _)
\* the loop of get_approximation over m_points, for coordinate c (1 or 2)
weighted_sum(points, c, scale) ==
  IF points = <<>> THEN Double(0)
  ELSE Plus(Times(Times(Head(points)[c], Head(points)[3]), scale),
            weighted_sum(Tail(points), c, scale))

\* curve_approximator::get_approximation
get_approximation(appx) ==
  IF Less(fabs(appx.m_total_length), sq_length_tolerance)
  THEN [x |-> Double(0), y |-> Double(0)]
  ELSE LET scale == Over(Double(1), appx.m_total_length)
       IN [x |-> weighted_sum(appx.m_points, 1, scale),
           y |-> weighted_sum(appx.m_points, 2, scale)]

\* ------------------------------------------------------------ candidates
RECURSIVE consume_from(_, _, _, _)
\* the loop of the candidate's constructor: the points of the path from its
\* end inwards, until the approximator wants no more
consume_from(appx, verts, position, i) ==
  IF i >= Len(verts) THEN appx
  ELSE LET v == IF position = FRONT THEN verts[i + 1] ELSE verts[((Len(verts) - i) - 1) + 1]
           r == consume(appx, Double(v.x), Double(v.y))
       IN IF ~r.more THEN r.appx ELSE consume_from(r.appx, verts, position, i + 1)

\* struct candidate: one end of linestring `index` of feature `parent`
\* (parent is the feature's place in the layer, which holds it for the
\* whole call); GREEDY leaves m_dx, m_dy as they were set, NaN
candidate(l, position, index, parent, directional, heuristic_, xy_distance) ==
  LET verts == l[parent].paths[index].verts
      v == IF position = FRONT THEN verts[1] ELSE verts[Len(verts)]
      d == IF heuristic_ = GREEDY THEN [x |-> NaN, y |-> NaN]
           ELSE get_approximation(
                  consume_from(curve_approximator(Double(v.x), Double(v.y),
                                                  xy_distance[1], xy_distance[2]),
                               verts, position, 1))
  IN [m_position |-> position, m_index |-> index, m_parent |-> parent,
      m_directional |-> directional, m_x |-> v.x, m_y |-> v.y,
      m_dx |-> d.x, m_dy |-> d.y]

\* the tags of a set, in std::set<string> order
TagSeq(tags) == SelectSeq(KeyOrder, LAMBDA k : k \in tags)

RECURSIVE TagsLess(_, _, _)
\* the tag loop of candidate_comparator: the first differing tag decides
TagsLess(ts, fa, fb) ==
  IF ts = <<>> THEN FALSE
  ELSE LET a_val == get(fa, Head(ts))
           b_val == get(fb, Head(ts))
       IN IF ValueLess(a_val, b_val) THEN TRUE
          ELSE IF ValueLess(b_val, a_val) THEN FALSE
          ELSE TagsLess(Tail(ts), fa, fb)

\* (mutant) candidate_comparator::operator() that does not look at y
candidate_comparator_without_y(l, tags, a, b) ==
  IF a.m_x < b.m_x THEN TRUE
  ELSE IF a.m_x > b.m_x THEN FALSE
  ELSE TagsLess(TagSeq(tags), l[a.m_parent], l[b.m_parent])

\* candidate_comparator::operator()
candidate_comparator(l, tags, a, b) ==
  IF a.m_x < b.m_x THEN TRUE
  ELSE IF a.m_x > b.m_x THEN FALSE
  ELSE IF a.m_y < b.m_y THEN TRUE
  ELSE IF a.m_y > b.m_y THEN FALSE
  ELSE TagsLess(TagSeq(tags), l[a.m_parent], l[b.m_parent])

\* multiset::emplace: the new element goes after every element that is not
\* greater than it (the upper bound of its equal range)
emplace(l, tags, cands, c) ==
  LET after == {k \in 1..Len(cands) : candidate_comparator(l, tags, c, cands[k])}
      pos == IF after = {} THEN Len(cands) + 1
             ELSE CHOOSE k \in after : \A m \in after : k <= m
  IN SubSeq(cands, 1, pos - 1) \o <<c>> \o SubSeq(cands, pos, Len(cands))

RECURSIVE add_candidates(_, _, _, _, _, _, _, _)
\* add_candidates: both ends of every linestring with more than one vertex,
\* from geometry k of the feature onwards
add_candidates(l, tags, f, k, cands, heuristic, preserve_direction, distance) ==
  IF k > num_geometries(l[f]) THEN cands
  ELSE LET geometry == l[f].paths[k]
       IN IF geometry.type = "LineString" /\ Len(geometry.verts) > 1
          THEN LET front == candidate(l, FRONT, k, f, preserve_direction, heuristic, distance)
                   back == candidate(l, BACK, k, f, preserve_direction, heuristic, distance)
               IN add_candidates(l, tags, f, k + 1,
                                 emplace(l, tags, emplace(l, tags, cands, front), back),
                                 heuristic, preserve_direction, distance)
          ELSE add_candidates(l, tags, f, k + 1, cands, heuristic, preserve_direction, distance)

\* unionable: the feature has geometry and all of the tags
unionable(feature, tags) ==
  /\ num_geometries(feature) # 0
  /\ \A key \in tags : has_key(feature, key)

RECURSIVE get_candidates_from(_, _, _, _, _, _, _)
get_candidates_from(l, tags, directional_tags, heuristic, distance, f, cands) ==
  IF f > Len(l) THEN cands
  ELSE IF ~unionable(l[f], tags)
       THEN get_candidates_from(l, tags, directional_tags, heuristic, distance, f + 1, cands)
       ELSE LET preserve_direction == \E tag \in directional_tags : has_key(l[f], tag)
            IN get_candidates_from(l, tags, directional_tags, heuristic, distance, f + 1,
                 add_candidates(l, tags, f, 1, cands, heuristic, preserve_direction, distance))

\* get_candidates: the ordered multiset of candidates of the layer
get_candidates(l, tags, directional_tags, heuristic, distance) ==
  get_candidates_from(l, tags, directional_tags, heuristic, distance, 1, <<>>)

\* --------------------------------------------------------------- scoring
\* (mutant) make_couple without the test of the positions of directional ends
make_couple_any_position(a, b) ==
  IF a.m_index = b.m_index /\ a.m_parent = b.m_parent THEN FALSE
  ELSE IF a.m_directional # b.m_directional THEN FALSE
  ELSE TRUE

\* make_couple: TRUE when the pair is given a couple (boost::none otherwise)
make_couple(a, b) ==
  IF a.m_index = b.m_index /\ a.m_parent = b.m_parent THEN FALSE
  ELSE IF a.m_directional # b.m_directional THEN FALSE
  ELSE IF a.m_directional /\ a.m_position = b.m_position THEN FALSE
  ELSE TRUE

\* (mutant) greedy_score that favours the hardest union
greedy_score_hardest_first(couple) ==
  IF couple.first.m_position # couple.second.m_position THEN MAX_SCORE
  ELSE IF couple.first.m_position = BACK THEN MAX_SCORE \div 2
  ELSE 0

\* (mutant) greedy_score with the half of MAX_SCORE rounded up
greedy_score_rounded_up(couple) ==
  IF couple.first.m_position # couple.second.m_position THEN 0
  ELSE IF couple.first.m_position = BACK THEN (MAX_SCORE + 1) \div 2
  ELSE MAX_SCORE

\* greedy_score
greedy_score(couple) ==
  IF couple.first.m_position # couple.second.m_position THEN 0
  ELSE IF couple.first.m_position = BACK THEN MAX_SCORE \div 2
  ELSE MAX_SCORE

\* What a double becomes when it is returned as a score_t. A double whose
\* integer part is no unsigned char makes the conversion undefined
\* behaviour; the builds there are leave the low byte of the integer or the
\* nearest end of the range.
Conversions == {"wraps", "saturates"}

to_score_t(value, conversion) ==
  LET t == Truncate(value)
  IN IF t \in 0..MAX_SCORE THEN t
     ELSE IF conversion = "wraps" THEN t % (MAX_SCORE + 1)
     ELSE IF t < 0 THEN 0 ELSE MAX_SCORE

\* greedy_score returns no double: there is one outcome whatever the build
conversions_of(heuristic) ==
  IF heuristic = GREEDY THEN {"wraps"} ELSE Conversions

\* the test of obtuse_score and acute_score for a degenerate curve
degenerate(couple) ==
  \/ IsZero(couple.first.m_dx) /\ IsZero(couple.first.m_dy)
  \/ IsZero(couple.second.m_dx) /\ IsZero(couple.second.m_dy)

\* obtuse_score, the double it returns as a score:
\* MAX_SCORE * ((dot + 1) * .5)
obtuse_value(couple) ==
  LET dot == Plus(Times(couple.first.m_dx, couple.second.m_dx),
                  Times(couple.first.m_dy, couple.second.m_dy))
  IN Times(Double(MAX_SCORE), Times(Plus(dot, Double(1)), Frac(1, 2)))

\* obtuse_score
obtuse_score(couple, conversion) ==
  IF degenerate(couple) THEN MAX_SCORE
  ELSE to_score_t(obtuse_value(couple), conversion)

\* (mutant) acute_score without the test for a degenerate curve
acute_score_of_any(couple, conversion) ==
  MAX_SCORE - obtuse_score(couple, conversion)

\* acute_score
acute_score(couple, conversion) ==
  IF degenerate(couple) THEN MAX_SCORE
  ELSE MAX_SCORE - obtuse_score(couple, conversion)

\* the scorer process selects for the heuristic
scorer(heuristic, couple, conversion) ==
  CASE heuristic = GREEDY -> greedy_score(couple)
    [] heuristic = OBTUSE -> obtuse_score(couple, conversion)
    [] heuristic = ACUTE -> acute_score(couple, conversion)

RECURSIVE adjacent_from(_, _, _, _, _)
\* the inner while loop of score_candidates: the candidates after place c,
\* from place n on, up to the first one the comparator puts after c
adjacent_from(l, tags, cands, c, n) ==
  IF n > Len(cands) \/ candidate_comparator(l, tags, cands[c], cands[n]) THEN <<>>
  ELSE (IF make_couple(cands[c], cands[n])
        THEN <<[first |-> cands[c], second |-> cands[n]]>>
        ELSE <<>>)
       \o adjacent_from(l, tags, cands, c, n + 1)

RECURSIVE couples_from(_, _, _, _)
\* the outer loop of score_candidates: every couple, in the order made
couples_from(l, tags, cands, c) ==
  IF c > Len(cands) THEN <<>>
  ELSE adjacent_from(l, tags, cands, c, c + 1) \o couples_from(l, tags, cands, c + 1)

\* map::emplace keeps the first couple emplaced under a score; the map is
\* read in ascending key order
score_map(heuristic, couples, conversion) ==
  LET scoreOf(k) == scorer(heuristic, couples[k], conversion)
      keys == {scoreOf(k) : k \in 1..Len(couples)}
      firstOf(s) == CHOOSE k \in 1..Len(couples) :
                      scoreOf(k) = s /\ \A m \in 1..(k - 1) : scoreOf(m) # s
      ranked == [s \in keys |-> Cardinality({t \in keys : t <= s})]
  IN [r \in 1..Cardinality(keys) |->
        LET s == CHOOSE t \in keys : ranked[t] = r
        IN [score |-> s, couple |-> couples[firstOf(s)]]]

\* score_candidates
score_candidates(l, tags, heuristic, cands, conversion) ==
  score_map(heuristic, couples_from(l, tags, cands, 1), conversion)

\* ----------------------------------------------------------------- union
\* geometry_container::erase(begin() + idx), idx counted from 1 here. An
\* index past the end is undefined behaviour: the build either aborts or
\* drops the last element.
erase(paths, idx) ==
  IF idx \in 1..Len(paths)
  THEN {[paths |-> RemoveAt(paths, idx), crashed |-> FALSE]}
  ELSE {[paths |-> paths, crashed |-> TRUE],
        [paths |-> SubSeq(paths, 1, Len(paths) - 1), crashed |-> FALSE]}

RECURSIVE append_from_forwards(_, _, _, _)
\* (mutant) the append loop that never runs backwards
append_from_forwards(dst, src, i, reversed) ==
  IF i >= Len(src) THEN dst
  ELSE append_from_forwards(line_to(dst, src[i + 1].x, src[i + 1].y), src, i + 1, reversed)

RECURSIVE append_from(_, _, _, _)
\* for(i = 1; i < src.size(); ++i) dst.line_to(src.vertex(i)), forwards or,
\* when reversed, dst.line_to(src.vertex(src.size() - i - 1)); i from 0 here
append_from(dst, src, i, reversed) ==
  IF i >= Len(src) THEN dst
  ELSE LET v == IF reversed THEN src[(Len(src) - i - 1) + 1] ELSE src[i + 1]
       IN append_from(line_to(dst, v.x, v.y), src, i + 1, reversed)

RECURSIVE reversed_from(_, _, _)
\* the first loop of the front-to-front case: src1 in reverse into a new
\* geometry, move_to for the first point and line_to for the others
reversed_from(dst, src1, i) ==
  IF i >= Len(src1) THEN dst
  ELSE LET v == src1[(Len(src1) - i - 1) + 1]
       IN reversed_from(IF i = 0 THEN move_to(dst, v.x, v.y) ELSE line_to(dst, v.x, v.y),
                        src1, i + 1)

\* (mutant) do_union without the swap
swap_couple_never(couple) == couple

\* the couple as do_union leaves it: swapped when the second is the BACK of
\* a back-to-front pair
swap_couple(couple) ==
  IF couple.first.m_position # couple.second.m_position
     /\ couple.second.m_position = BACK
  THEN [first |-> couple.second, second |-> couple.first]
  ELSE couple

\* do_union: the possible results [layer, couple, crashed] of the union of a
\* couple in layer l. A candidate whose m_index is no longer a geometry of its
\* feature makes paths()[m_index] undefined behaviour; union_candidates never
\* passes one.
do_union(l, couple0) ==
  LET couple == swap_couple(couple0)
      a == couple.first
      b == couple.second
      src == l[b.m_parent].paths[b.m_index].verts
  IN IF \/ a.m_index > num_geometries(l[a.m_parent])
        \/ b.m_index > num_geometries(l[b.m_parent])
     THEN {[layer |-> l, couple |-> couple, crashed |-> TRUE]}
     ELSE IF a.m_position # b.m_position \/ a.m_position = BACK
     THEN \* second is appended to first, reversed when back to back
          LET l1 == [l EXCEPT ![a.m_parent].paths[a.m_index].verts =
                        append_from(@, src, 1, a.m_position = b.m_position)]
          IN {[layer |-> [l1 EXCEPT ![b.m_parent].paths = e.paths],
               couple |-> couple, crashed |-> e.crashed] :
                e \in erase(l1[b.m_parent].paths, b.m_index)}
     ELSE \* front to front: a new geometry, of no stated type
          LET src1 == l[a.m_parent].paths[a.m_index].verts
              dst == [type |-> "Unknown",
                      verts |-> append_from(reversed_from(<<>>, src1, 0), src, 1, FALSE)]
              firsts == erase(l[a.m_parent].paths, a.m_index)
          IN UNION {
               LET l1 == [l EXCEPT ![a.m_parent].paths = e1.paths]
               IN {[layer |-> IF e1.crashed \/ e2.crashed
                              THEN [l1 EXCEPT ![b.m_parent].paths = e2.paths]
                              ELSE [[l1 EXCEPT ![b.m_parent].paths = e2.paths]
                                      EXCEPT ![a.m_parent].paths = Append(@, dst)],
                    couple |-> couple,
                    crashed |-> e1.crashed \/ e2.crashed] :
                     e2 \in erase(l1[b.m_parent].paths, b.m_index)} :
               e1 \in firsts}

\* (mutant) sanitize_tags that keeps the first feature's value where the two
\* features differ
sanitize_tags_keeps_differing(l, strategy, couple) ==
  LET A == l[couple.first.m_parent]
      B == l[couple.second.m_parent]
      pass1 == [key \in Keys |->
                  IF ~has_key(A, key) THEN Absent
                  ELSE IF ~has_key(B, key)
                       THEN (IF strategy = INTERSECT THEN Null ELSE A.attrs[key])
                       ELSE A.attrs[key]]
      pass2 == [key \in Keys |->
                  IF strategy = ACCUMULATE /\ has_key(B, key) /\ pass1[key] = Absent
                  THEN B.attrs[key]
                  ELSE pass1[key]]
  IN [l EXCEPT ![couple.first.m_parent].attrs = pass2]

\* (mutant) sanitize_tags whose second loop runs for every strategy
sanitize_tags_always_accumulates(l, strategy, couple) ==
  LET A == l[couple.first.m_parent]
      B == l[couple.second.m_parent]
      pass1 == [key \in Keys |->
                  IF ~has_key(A, key) THEN Absent
                  ELSE IF ~has_key(B, key)
                       THEN (IF strategy = INTERSECT THEN Null ELSE A.attrs[key])
                       ELSE IF A.attrs[key] # get(B, key) THEN Null
                       ELSE A.attrs[key]]
      pass2 == [key \in Keys |->
                  IF has_key(B, key) /\ pass1[key] = Absent
                  THEN B.attrs[key]
                  ELSE pass1[key]]
  IN [l EXCEPT ![couple.first.m_parent].attrs = pass2]

\* sanitize_tags: the attributes of the first feature of the couple after
\* the union
sanitize_tags(l, strategy, couple) ==
  LET A == l[couple.first.m_parent]
      B == l[couple.second.m_parent]
      \* first loop: every item of the first partner
      pass1 == [key \in Keys |->
                  IF ~has_key(A, key) THEN Absent
                  ELSE IF ~has_key(B, key)
                       THEN (IF strategy = INTERSECT THEN Null ELSE A.attrs[key])
                       ELSE IF A.attrs[key] # get(B, key) THEN Null
                       ELSE A.attrs[key]]
      \* second loop: only for ACCUMULATE, the items only the second has
      pass2 == [key \in Keys |->
                  IF strategy = ACCUMULATE /\ has_key(B, key) /\ pass1[key] = Absent
                  THEN B.attrs[key]
                  ELSE pass1[key]]
  IN [l EXCEPT ![couple.first.m_parent].attrs = pass2]

\* (mutant) cull that resizes the layer to one feature too few
cull_off_by_one(l) ==
  LET kept == SelectSeq(l, LAMBDA feature : num_geometries(feature) # 0)
  IN IF kept = <<>> THEN kept ELSE SubSeq(kept, 1, Len(kept) - 1)

\* (mutant) cull that removes nothing
cull_keeps_all(l) == l

\* cull: throw out the features that have no geometry
cull(l) == SelectSeq(l, LAMBDA feature : num_geometries(feature) # 0)

\* ---------------------------------------------------------------- inputs
Pts == {<<x, 0>> : x \in 0..MaxCoord}

\* every linestring of n vertices over the points
LinesOfLen(n) == {MkGeom("LineString", pts) : pts \in [1..n -> Pts]}

\* the linestrings of two distinct vertices
Segments == {g \in LinesOfLen(2) : g.verts[1].x # g.verts[2].x}

\* the linestrings of MaxLen vertices that never stay on a point
LongLines ==
  {g \in LinesOfLen(MaxLen) : \A j \in 1..(MaxLen - 1) : g.verts[j].x # g.verts[j + 1].x}

\* geometries the unionizer does not join, and a linestring of one point twice
APoint == MkGeom("Point", <<<<1, 0>>>>)
ATrivialLine == MkGeom("LineString", <<<<1, 0>>>>)
APolygon == MkGeom("Polygon", <<<<0, 0>>, <<1, 0>>, <<0, 0>>>>)
ADoubledPoint == MkGeom("LineString", <<<<1, 0>>, <<1, 0>>>>)

NoAttrs == [key \in Keys |-> Absent]

\* attribute sets that differ in the match tag and the direction tag
RoadAttrs ==
  {[NoAttrs EXCEPT !["road"] = "A1"],
   [NoAttrs EXCEPT !["road"] = "A1", !["oneway"] = "A1"],
   [NoAttrs EXCEPT !["road"] = "A2"]}

\* with or without the match tag, with or without the direction tag
LooseAttrs ==
  {[NoAttrs EXCEPT !["road"] = "A1"],
   [NoAttrs EXCEPT !["road"] = "A1", !["oneway"] = "A1"],
   NoAttrs}

\* every attribute set over name, ref and road
PlainAttrs ==
  {[NoAttrs EXCEPT !["road"] = "A1"], [NoAttrs EXCEPT !["road"] = "A2"]}

TagAttrs ==
  {[NoAttrs EXCEPT !["name"] = t[1], !["ref"] = t[2], !["road"] = t[3]] :
     t \in [1..3 -> Values \cup {Absent}]}

\* The families of inputs. shape: the number of geometries of each feature;
\* pool, attrs: what a geometry and a feature's attributes are drawn from.
Families ==
  { [shape |-> sh, pool |-> Segments \cup {APoint}, attrs |-> RoadAttrs,
     strategies |-> {INTERSECT},
     iters |-> IF sh = <<0, 1, 1>> THEN {0, 1, MaxIter} ELSE {1, MaxIter}] :
       sh \in {<<1, 1, 1>>, <<3>>, <<2, 1>>, <<1, 2>>, <<0, 1, 1>>} }
  \cup
  { [shape |-> <<1, 1>>,
     pool |-> {MkGeom("LineString", <<<<0, 0>>, <<1, 0>>>>),
               MkGeom("LineString", <<<<1, 0>>, <<2, 0>>>>),
               MkGeom("LineString", <<<<1, 0>>, <<0, 0>>>>)},
     attrs |-> TagAttrs,
     strategies |-> {INTERSECT, ACCUMULATE}, iters |-> {1}],
    [shape |-> <<1, 1, 1, 1>>,
     pool |-> {MkGeom("LineString", <<<<0, 0>>, <<1, 0>>>>),
               MkGeom("LineString", <<<<1, 0>>, <<2, 0>>>>),
               MkGeom("LineString", <<<<2, 0>>, <<1, 0>>>>),
               MkGeom("LineString", <<<<1, 1>>, <<2, 0>>>>)},
     attrs |-> PlainAttrs,
     strategies |-> {INTERSECT}, iters |-> {1}] }

\* the family of the layers of two features of one geometry each: a long
\* linestring or a geometry the unionizer does not join
PairFamilies ==
  { [shape |-> <<1, 1>>,
     pool |-> LongLines \cup {APoint, ATrivialLine, APolygon, ADoubledPoint},
     attrs |-> LooseAttrs,
     strategies |-> {INTERSECT}, iters |-> {1, MaxIter}] }

\* the layer of a shape: feature f (id f) holds the next shape[f] geometries
MkLayer(shape, geoms, attrs) ==
  [f \in 1..Len(shape) |->
     [id |-> f,
      paths |-> [k \in 1..shape[f] |-> geoms[SumSeq(SubSeq(shape, 1, f - 1)) + k]],
      attrs |-> attrs[f]]]

NoCandidate ==
  [m_position |-> FRONT, m_index |-> 0, m_parent |-> 0, m_directional |-> FALSE,
   m_x |-> 0, m_y |-> 0, m_dx |-> NaN, m_dy |-> NaN]

\* a step that is no union
Step(op, l) == [op |-> op, a |-> NoCandidate, b |-> NoCandidate, before |-> l]

FeatureIds == {layer0[f].id : f \in 1..Len(layer0)}

\* the adminizer is not running
AdminIdle ==
  /\ alayer = <<>> /\ aux = <<>> /\ entries = <<>> /\ apc = "idle"
  /\ fi = 0 /\ gi = 0 /\ pending = {} /\ m_index = 0 /\ m_finished = FALSE
  /\ pass = 0 /\ alayer0 = <<>> /\ writes = <<>>

\* boost::optional: a set of no value or of one
None == {}
Some(v) == {v}

\* no property tree: create_unionizer is not being called
NoTree ==
  [union_heuristic |-> None, tag_strategy |-> None, keep_ids_tag |-> None,
   max_iterations |-> None, match_tags |-> None,
   preserve_direction_tags |-> None, angle_union_sample_ratio |-> None]

\* no map: process is not being called
NoMap == [width |-> 0, height |-> 0]

\* the heuristic of the runs of the greedy unionizer, with a map of the
\* extent of the coordinates and the default ratio
GreedySettings ==
  {[heuristic |-> GREEDY, map |-> [width |-> MaxCoord, height |-> MaxCoord],
    ratio |-> DEFAULT_RATIO]}

\* process is entered for the first time, on an input of one of the
\* families, by a unionizer of one of the settings
Enter(families, settings) ==
  /\ AdminIdle
  /\ ptree = NoTree
  /\ \E fam \in families, setting \in settings :
       \E geoms \in [1..SumSeq(fam.shape) -> fam.pool],
          attrs \in [1..Len(fam.shape) -> fam.attrs],
          strategy \in fam.strategies,
          max_iterations \in fam.iters :
         /\ layer = MkLayer(fam.shape, geoms, attrs)
         /\ layer0 = layer
         /\ map = setting.map
         /\ config = [m_heuristic |-> setting.heuristic, m_strategy |-> strategy,
                      m_max_iterations |-> max_iterations,
                      m_match_tags |-> {"road"},
                      m_preserve_direction_tags |-> {"oneway"},
                      m_angle_union_sample_ratio |-> setting.ratio]
         /\ pc = "loop"
         /\ iter = 0
         /\ scored = <<>>
         /\ unioned = {}
         /\ last = Step("enter", layer)
         /\ joins = <<>>
         /\ merges = [f \in 1..Len(fam.shape) |-> 0]
  /\ passes = 0
  /\ returns = <<>>

Init == Enter(Families, GreedySettings)

\* --------------------------------------------------------------- process
\* (mutant) the test of the for loop of process with <= for <
loop_test_inclusive(i, max_iterations) == i <= max_iterations

\* the test of the for loop of process
loop_test(i, max_iterations) == i < max_iterations

\* width_units, height_units: the extent of the map times the ratio (which
\* is kept in hundredths)
xy_distance(m, ratio) ==
  <<Times(Double(m.width), Frac(ratio, 100)), Times(Double(m.height), Frac(ratio, 100))>>

\* one turn of the for loop of process up to the call of union_candidates:
\* get_candidates and score_candidates
Score ==
  /\ pc = "loop"
  /\ loop_test(iter, config.m_max_iterations)
  /\ \E candidates \in {get_candidates(layer, config.m_match_tags,
                                        config.m_preserve_direction_tags, config.m_heuristic,
                                        xy_distance(map, config.m_angle_union_sample_ratio))},
        conversion \in conversions_of(config.m_heuristic) :
       scored' = score_candidates(layer, config.m_match_tags, config.m_heuristic,
                                  candidates, conversion)
  /\ unioned' = {}
  /\ merges' = [f \in DOMAIN merges |-> 0]
  /\ pc' = "union"
  /\ last' = Step("score", layer)
  /\ passes' = passes + 1
  /\ UNCHANGED <<layer, config, ptree, map, iter, layer0, returns, joins>>
  /\ UNCHANGED avars

\* the ids of the two features of a couple
couple_ids(l, couple) == {l[couple.first.m_parent].id, l[couple.second.m_parent].id}

\* (mutant) the test of union_candidates on the first feature alone
already_unioned_first_only(l, couple, used) ==
  l[couple.first.m_parent].id \in used

\* the test of union_candidates: one of the two features was already used
\* in a union of this iteration
already_unioned(l, couple, used) ==
  \/ l[couple.first.m_parent].id \in used
  \/ l[couple.second.m_parent].id \in used

\* union_candidates, one entry of the map: a feature of the couple was
\* already used in this iteration
Skip ==
  /\ pc = "union"
  /\ scored # <<>>
  /\ already_unioned(layer, Head(scored).couple, unioned)
  /\ scored' = Tail(scored)
  /\ last' = [op |-> "skip", a |-> Head(scored).couple.first,
              b |-> Head(scored).couple.second, before |-> layer]
  /\ UNCHANGED <<layer, config, ptree, map, pc, iter, unioned, layer0, passes, returns, joins, merges>>
  /\ UNCHANGED avars

\* union_candidates, one entry of the map: do_union, sanitize_tags and the
\* marking of the two features
Union ==
  /\ pc = "union"
  /\ scored # <<>>
  /\ ~already_unioned(layer, Head(scored).couple, unioned)
  /\ \E r \in do_union(layer, Head(scored).couple) :
       /\ last' = [op |-> IF r.crashed THEN "crash" ELSE "splice",
                   a |-> r.couple.first, b |-> r.couple.second, before |-> layer]
       /\ IF r.crashed
          THEN /\ pc' = "crashed"
               /\ layer' = r.layer
               /\ UNCHANGED <<scored, unioned, joins, merges>>
          ELSE /\ pc' = pc
               /\ layer' = sanitize_tags(r.layer, config.m_strategy, r.couple)
               /\ scored' = Tail(scored)
               /\ unioned' = unioned \cup couple_ids(layer, r.couple)
               /\ joins' = Append(joins, <<r.couple.first.m_x, r.couple.first.m_y>>)
               /\ merges' = [f \in DOMAIN merges |->
                               IF f \in {r.couple.first.m_parent, r.couple.second.m_parent}
                               THEN merges[f] + 1 ELSE merges[f]]
  /\ UNCHANGED <<config, ptree, map, iter, layer0, passes, returns>>
  /\ UNCHANGED avars

\* union_candidates returned a count other than 0: the next turn of the loop
NextIteration ==
  /\ pc = "union"
  /\ scored = <<>>
  /\ Cardinality(unioned) # 0
  /\ iter' = iter + 1
  /\ pc' = "loop"
  /\ last' = Step("next", layer)
  /\ UNCHANGED <<layer, config, ptree, map, scored, unioned, layer0, passes, returns, joins, merges>>
  /\ UNCHANGED avars

\* (mutant) process that takes another turn of its loop after a turn in
\* which union_candidates returned 0
Converged_goes_on ==
  /\ pc = "union"
  /\ scored = <<>>
  /\ Cardinality(unioned) = 0
  /\ iter' = iter + 1
  /\ pc' = "loop"
  /\ last' = Step("next", layer)
  /\ UNCHANGED <<layer, config, ptree, map, scored, unioned, layer0, passes, returns, joins, merges>>
  /\ UNCHANGED avars

\* union_candidates returned 0: return cull(layer)
Converged ==
  /\ pc = "union"
  /\ scored = <<>>
  /\ Cardinality(unioned) = 0
  /\ layer' = cull(layer)
  /\ pc' = "done"
  /\ last' = Step("converged", layer)
  /\ UNCHANGED <<config, ptree, map, iter, scored, unioned, layer0, passes, returns, joins, merges>>
  /\ UNCHANGED avars

\* ran out of iterations: return cull(layer)
RanOut ==
  /\ pc = "loop"
  /\ ~loop_test(iter, config.m_max_iterations)
  /\ layer' = cull(layer)
  /\ pc' = "done"
  /\ last' = Step("ranout", layer)
  /\ UNCHANGED <<config, ptree, map, iter, scored, unioned, layer0, passes, returns, joins, merges>>
  /\ UNCHANGED avars

Next == Score \/ Skip \/ Union \/ NextIteration \/ Converged \/ RanOut

Spec == Init /\ [][Next]_vars

\* ---- unionizer::process on the layers of two features
PairInit == Enter(PairFamilies, GreedySettings)

PairNext == Score \/ Skip \/ Union \/ NextIteration \/ Converged \/ RanOut

PairSpec == PairInit /\ [][PairNext]_vars

\* ---- unionizer::process with max_iterations left at its default
\* layers of three geometries, in three features or in one; max_iterations
\* is the default of create_unionizer, or 1
UncappedFamilies ==
  { [shape |-> sh, pool |-> Segments \cup {APoint}, attrs |-> PlainAttrs,
     strategies |-> {INTERSECT}, iters |-> {1, SIZE_MAX}] :
       sh \in {<<1, 1, 1>>, <<3>>} }

UncappedInit == Enter(UncappedFamilies, GreedySettings)

UncappedNext == Score \/ Skip \/ Union \/ NextIteration \/ Converged \/ RanOut

\* process has returned, or has failed in do_union
Ended == pc \in {"done", "crashed"}

\* process is a sequential program: a step that can be taken is taken. This
\* is WF_vars(UncappedNext) written out, a step of process being enabled in
\* the states where process has not ended
UncappedFairness == []<>Ended \/ []<><<UncappedNext>>_vars

UncappedSpec == UncappedInit /\ [][UncappedNext]_vars /\ UncappedFairness

\* ---- unionizer::process called again on the layer it returned
\* the families of the runs that call process twice
TwiceFamilies ==
  { [shape |-> sh, pool |-> Segments \cup {APoint}, attrs |-> RoadAttrs,
     strategies |-> {INTERSECT}, iters |-> {1, MaxIter}] :
       sh \in {<<1, 1, 1>>, <<0, 1, 1>>} }

TwiceInit == Enter(TwiceFamilies, GreedySettings)

\* process has returned from its first call and is called again, by the same
\* unionizer, on the layer it left
Again ==
  /\ pc = "done"
  /\ returns = <<>>
  /\ returns' = <<last.op>>
  /\ pc' = "loop"
  /\ iter' = 0
  /\ passes' = 0
  /\ scored' = <<>>
  /\ unioned' = {}
  /\ layer0' = layer
  /\ last' = Step("enter", layer)
  /\ joins' = <<>>
  /\ merges' = [f \in 1..Len(layer) |-> 0]
  /\ UNCHANGED <<layer, config, ptree, map>>
  /\ UNCHANGED avars

TwiceNext ==
  Score \/ Skip \/ Union \/ NextIteration \/ Converged \/ RanOut \/ Again

TwiceSpec == TwiceInit /\ [][TwiceNext]_vars

\* ---- unionizer::process under the heuristics that score by angle
\* linestrings that begin or end on (1, 0): along the x axis, at a right
\* angle to it, two units long, bent, and of one point twice
AngleLines ==
  {MkGeom("LineString", <<<<0, 0>>, <<1, 0>>>>),
   MkGeom("LineString", <<<<1, 0>>, <<2, 0>>>>),
   MkGeom("LineString", <<<<1, 0>>, <<1, 1>>>>),
   MkGeom("LineString", <<<<1, 0>>, <<3, 0>>>>),
   MkGeom("LineString", <<<<1, 0>>, <<3, 1>>>>),
   MkGeom("LineString", <<<<1, 0>>, <<2, 0>>, <<2, 2>>>>),
   ADoubledPoint}

AngleFamilies ==
  { [shape |-> sh, pool |-> AngleLines, attrs |-> {[NoAttrs EXCEPT !["road"] = "A1"]},
     strategies |-> {INTERSECT}, iters |-> {1, MaxIter}] :
       sh \in {<<1, 1>>, <<1, 1, 1>>} }

\* the extents of the map: with the ratios .1 and .5 they give the lengths
\* .4, 1, 2 and 5 to consume on each axis
AngleMaps == {[width |-> 4, height |-> 4], [width |-> 10, height |-> 10]}

AngleSettings ==
  {[heuristic |-> h, map |-> m, ratio |-> r] :
     h \in {OBTUSE, ACUTE}, m \in AngleMaps, r \in {DEFAULT_RATIO, GREATEST_RATIO}}

AngleInit == Enter(AngleFamilies, AngleSettings)

AngleNext == Score \/ Skip \/ Union \/ NextIteration \/ Converged \/ RanOut

AngleSpec == AngleInit /\ [][AngleNext]_vars

\* ------------------------------------------------------ create_unionizer
\* string_to_heuristic
string_to_heuristic ==
  [name \in {"greedy", "obtuse", "acute"} |->
     CASE name = "greedy" -> GREEDY
       [] name = "obtuse" -> OBTUSE
       [] name = "acute" -> ACUTE]

\* string_to_strategy
string_to_strategy ==
  [name \in {"intersect", "accumulate"} |->
     IF name = "intersect" THEN INTERSECT ELSE ACCUMULATE]

\* ptree::get with a default
get_or(opt, default) == IF opt = None THEN default ELSE CHOOSE v \in opt : TRUE

\* (mutant) the test of the ratio with < 0 for <= 0
insane_ratio_but_zero(ratio) == ratio < 0 \/ ratio > GREATEST_RATIO

\* the test of angle_union_sample_ratio: TRUE when create_unionizer throws
insane_ratio(ratio) == ratio <= 0 \/ ratio > GREATEST_RATIO

\* no unionizer
NoIzer ==
  [m_heuristic |-> "", m_strategy |-> "", m_keep_ids_tag |-> None,
   m_max_iterations |-> 0, m_match_tags |-> {}, m_preserve_direction_tags |-> {},
   m_angle_union_sample_ratio |-> 0]

\* create_unionizer: the unionizer made, or thrown with none made
create_unionizer(tree) ==
  LET requested_heuristic == get_or(tree.union_heuristic, "greedy")
      requested_strategy == get_or(tree.tag_strategy, "intersect")
      max_iterations == get_or(tree.max_iterations, SIZE_MAX)
      match == get_or(tree.match_tags, {})
      direction == get_or(tree.preserve_direction_tags, {})
      angle_union_sample_ratio == get_or(tree.angle_union_sample_ratio, DEFAULT_RATIO)
  IN IF requested_heuristic \notin DOMAIN string_to_heuristic
     THEN [thrown |-> TRUE, izer |-> NoIzer]
     ELSE IF requested_strategy \notin DOMAIN string_to_strategy
     THEN [thrown |-> TRUE, izer |-> NoIzer]
     ELSE IF insane_ratio(angle_union_sample_ratio)
     THEN [thrown |-> TRUE, izer |-> NoIzer]
     ELSE [thrown |-> FALSE,
           izer |-> [m_heuristic |-> string_to_heuristic[requested_heuristic],
                     m_strategy |-> string_to_strategy[requested_strategy],
                     m_keep_ids_tag |-> tree.keep_ids_tag,
                     m_max_iterations |-> max_iterations,
                     m_match_tags |-> match,
                     m_preserve_direction_tags |-> direction,
                     m_angle_union_sample_ratio |-> angle_union_sample_ratio]]

\* ---- inputs
Optional(S) == {None} \cup {Some(v) : v \in S}

Trees ==
  [union_heuristic : Optional({"greedy", "obtuse", "acute", "longest"}),
   tag_strategy : Optional({"intersect", "accumulate", "union"}),
   keep_ids_tag : Optional({"ids"}),
   max_iterations : Optional({0, MaxIter}),
   match_tags : Optional({{"road"}}),
   preserve_direction_tags : Optional({{"oneway"}}),
   angle_union_sample_ratio : Optional({-10, 0, 1, DEFAULT_RATIO, GREATEST_RATIO,
                                        GREATEST_RATIO + 1, 100})]

CreateInit ==
  /\ AdminIdle
  /\ ptree \in Trees
  /\ config = NoIzer
  /\ pc = "create"
  /\ map = NoMap
  /\ layer = <<>> /\ layer0 = <<>> /\ iter = 0
  /\ scored = <<>> /\ unioned = {} /\ last = Step("idle", <<>>)
  /\ joins = <<>> /\ merges = <<>>
  /\ passes = 0 /\ returns = <<>>

\* create_unionizer is called and returns a unionizer or throws
Create ==
  /\ pc = "create"
  /\ LET r == create_unionizer(ptree)
     IN /\ pc' = IF r.thrown THEN "thrown" ELSE "created"
        /\ config' = r.izer
  /\ UNCHANGED <<layer, ptree, map, iter, scored, unioned, layer0, last, joins, merges,
                 passes, returns>>
  /\ UNCHANGED avars

CreateNext == Create

CreateSpec == CreateInit /\ [][CreateNext]_vars

\* =============================================================== adminizer
\* Geometry is kept by its extent: the set of cells of a line it covers. Two
\* geometries intersect when they share a cell; the envelope of a geometry is
\* the interval from its least to its greatest cell.

\* cells range over 0..MaxCell
MaxCell == 2

\* std::numeric_limits<unsigned int>::max() is 2^32 - 1; it is held here at
\* 2^31 - 1, the greatest integer TLC computes with. The code only compares it
\* with the indices of entries, which are far below either number.
UINT_MAX == 2147483647

param_name == "iso"

Cells == 0..MaxCell

\* a box: the cells of an interval; a box not yet set (box2d's default) has none
Box(cells) ==
  IF cells = {} THEN {}
  ELSE (CHOOSE lo \in cells : \A c \in cells : lo <= c)
       ..(CHOOSE hi \in cells : \A c \in cells : hi >= c)

\* bg::return_envelope of a lifted geometry
return_envelope(geom) == Box(geom.cells)

\* box2d::expand_to_include
expand_to_include(box, other) == Box(box \cup other)

\* bgi::intersects on boxes
box_intersects(b1, b2) == b1 \cap b2 # {}

\* feature->envelope(): the boxes of its geometries, united
feature_envelope(feature) ==
  Box(UNION {return_envelope(feature.paths[k]) : k \in 1..Len(feature.paths)})

RECURSIVE envelope_from(_, _, _)
\* the loop of adminizer::envelope; `first` is never cleared, so every turn
\* takes the branch that assigns
envelope_from(l, f, result) ==
  IF f > Len(l) THEN result
  ELSE LET first == TRUE
       IN envelope_from(l, f + 1,
            IF first THEN feature_envelope(l[f])
            ELSE expand_to_include(result, feature_envelope(l[f])))

\* adminizer::envelope
envelope(l) == envelope_from(l, 1, {})

\* m_datasource->features(query(env)): the features whose box meets env
datasource_features(ds, env) ==
  SelectSeq(ds, LAMBDA f : box_intersects(feature_envelope(f), env))

RECURSIVE entries_of_feature_moved(_, _, _)
\* (mutant) the inner loop of make_entries with an entry that takes param's
\* value away: only the first polygon of a feature gets it
entries_of_feature_moved(f, k, index) ==
  IF k > Len(f.paths) THEN <<>>
  ELSE IF f.paths[k].type = "Polygon"
       THEN <<[polygon |-> f.paths[k].cells,
               value |-> IF \E j \in 1..(k - 1) : f.paths[j].type = "Polygon"
                         THEN Null ELSE f.value,
               index |-> index]>>
            \o entries_of_feature_moved(f, k + 1, index + 1)
       ELSE entries_of_feature_moved(f, k + 1, index)

RECURSIVE entries_of_feature(_, _, _)
\* the inner loop of make_entries: one entry per polygon of the feature,
\* numbered from `index` on
entries_of_feature(f, k, index) ==
  IF k > Len(f.paths) THEN <<>>
  ELSE IF f.paths[k].type = "Polygon"
       THEN <<[polygon |-> f.paths[k].cells, value |-> f.value, index |-> index]>>
            \o entries_of_feature(f, k + 1, index + 1)
       ELSE entries_of_feature(f, k + 1, index)

RECURSIVE entries_from(_, _, _)
entries_from(fset, f, index) ==
  IF f > Len(fset) THEN <<>>
  ELSE LET es == entries_of_feature(fset[f], 1, index)
       IN es \o entries_from(fset, f + 1, index + Len(es))

\* adminizer::make_entries
make_entries(ds, env) == entries_from(datasource_features(ds, env), 1, 0)

\* adminizer::make_index: the value <<box, i>> of every entry, i its place in
\* the vector
make_index(es) == {<<Box(es[i + 1].polygon), i>> : i \in 0..(Len(es) - 1)}

\* intersects_iterator::intersects: the detailed test
intersects(geom, polygon) == geom.cells \cap polygon # {}

\* index.query(bgi::intersects(envelope of geom)): the values it will report
query(index, geom) == {v \in index : box_intersects(v[1], return_envelope(geom))}

\* (mutant) param_updater::operator() that takes every entry it is given
updates_always(e, best) == TRUE

\* (mutant) param_updater::operator() that also takes a greater index
updates_on_other(e, best) == e.index # best

\* (mutant) param_updater::operator() that takes only the first entry given
updates_on_first(e, best) == best = UINT_MAX

\* the test of param_updater::operator()
updates(e, best) == e.index < best

\* (mutant) param_updater::operator() that is finished at index 1 as well
finishes_at_one(e) == e.index <= 1

\* what param_updater::operator() sets m_finished to when it takes an entry
finishes(e) == e.index = 0

\* ---- inputs
\* the polygons of the datasource: one cell, two neighbouring cells, or the
\* two outermost cells with a gap between them
AuxPolygons ==
  {[type |-> "Polygon", cells |-> cs] :
     cs \in {{c} : c \in Cells}
            \cup {{c, c + 1} : c \in 0..(MaxCell - 1)}
            \cup {{0, MaxCell}}}

AuxLine == [type |-> "LineString", cells |-> Cells]

\* the geometries of the layer
LayerGeoms ==
  {[type |-> "Point", cells |-> {0}],
   [type |-> "Point", cells |-> {1}],
   [type |-> "LineString", cells |-> {1, 2}],
   [type |-> "Polygon", cells |-> {0, 1, 2}]}

\* the value of param_name on the features of the datasource, in its order
AuxValues == <<"A1", "A2", "A3">>

AuxShapes == {<<1, 1, 1>>, <<2, 1>>}

LayerShapes == {<<2, 1>>, <<1, 1>>, <<1>>}

MkAux(shape, geoms) ==
  [f \in 1..Len(shape) |->
     [value |-> AuxValues[f],
      paths |-> [k \in 1..shape[f] |-> geoms[SumSeq(SubSeq(shape, 1, f - 1)) + k]]]]

MkAdminLayer(shape, geoms) ==
  [f \in 1..Len(shape) |->
     [id |-> f,
      paths |-> [k \in 1..shape[f] |-> geoms[SumSeq(SubSeq(shape, 1, f - 1)) + k]],
      attrs |-> [key \in {param_name} |-> Absent]]]

\* the unionizer is not running
UnionIdle ==
  /\ layer = <<>> /\ layer0 = <<>> /\ pc = "idle" /\ iter = 0
  /\ ptree = NoTree
  /\ map = NoMap
  /\ config = [m_heuristic |-> GREEDY, m_strategy |-> INTERSECT,
               m_max_iterations |-> 0, m_match_tags |-> {},
               m_preserve_direction_tags |-> {}]
  /\ scored = <<>> /\ unioned = {} /\ last = Step("idle", <<>>)
  /\ joins = <<>> /\ merges = <<>>
  /\ passes = 0 /\ returns = <<>>

\* process is entered for the first time, on a layer and a datasource of the
\* given shapes
AdminEnter(auxShapes, layerShapes) ==
  /\ UnionIdle
  /\ \E ash \in auxShapes, lsh \in layerShapes :
       \E ageoms \in [1..SumSeq(ash) -> AuxPolygons \cup {AuxLine}],
          lgeoms \in [1..SumSeq(lsh) -> LayerGeoms] :
         /\ aux = MkAux(ash, ageoms)
         /\ alayer = MkAdminLayer(lsh, lgeoms)
         /\ alayer0 = alayer
         /\ writes = [f \in 1..Len(lsh) |-> <<>>]
  /\ entries = <<>>
  /\ apc = "start"
  /\ fi = 0 /\ gi = 0 /\ pending = {}
  /\ m_index = 0 /\ m_finished = FALSE
  /\ pass = 1

AdminInit == AdminEnter(AuxShapes, LayerShapes)

\* ---- adminizer::process
\* the envelope, the entries and the index; the loop over the layer begins
MakeEntries ==
  /\ apc = "start"
  /\ entries' = make_entries(aux, envelope(alayer))
  /\ fi' = 1
  /\ apc' = "feature"
  /\ UNCHANGED <<alayer, aux, gi, pending, m_index, m_finished, pass, alayer0, writes>>
  /\ UNCHANGED uvars

\* adminize_feature is entered: a new param_updater
BeginFeature ==
  /\ apc = "feature"
  /\ fi <= Len(alayer)
  /\ m_index' = UINT_MAX
  /\ m_finished' = FALSE
  /\ gi' = 1
  /\ apc' = "geom"
  /\ UNCHANGED <<alayer, aux, entries, fi, pending, pass, alayer0, writes>>
  /\ UNCHANGED uvars

\* try_update on the next geometry of the feature: the query is started
Query ==
  /\ apc = "geom"
  /\ gi <= Len(alayer[fi].paths)
  /\ pending' = IF alayer[fi].paths[gi].type \in {"Point", "LineString", "Polygon"}
                THEN query(make_index(entries), alayer[fi].paths[gi])
                ELSE {}
  /\ apc' = "query"
  /\ UNCHANGED <<alayer, aux, entries, fi, gi, m_index, m_finished, pass, alayer0, writes>>
  /\ UNCHANGED uvars

\* the query reports one more value, in whatever order the index holds them:
\* intersects_iterator::operator= and, on a hit, param_updater::operator()
Report ==
  /\ apc = "query"
  /\ \E v \in pending :
       LET e == entries[v[2] + 1]
           hit == intersects(alayer[fi].paths[gi], e.polygon)
       IN /\ pending' = pending \ {v}
          /\ IF hit /\ updates(e, m_index)
             THEN /\ alayer' = [alayer EXCEPT ![fi] = put_new(@, param_name, e.value)]
                  /\ m_finished' = finishes(e)
                  /\ m_index' = e.index
                  /\ writes' = [writes EXCEPT ![fi] = Append(@, e.index)]
             ELSE UNCHANGED <<alayer, m_index, m_finished, writes>>
  /\ UNCHANGED <<aux, entries, apc, fi, gi, pass, alayer0>>
  /\ UNCHANGED uvars

\* the query is over and the updater is not finished: the next geometry
NextGeometry ==
  /\ apc = "query"
  /\ pending = {}
  /\ ~m_finished
  /\ gi' = gi + 1
  /\ apc' = "geom"
  /\ UNCHANGED <<alayer, aux, entries, fi, pending, m_index, m_finished, pass, alayer0, writes>>
  /\ UNCHANGED uvars

\* the query is over and the updater is finished: the loop is left
QuickExit ==
  /\ apc = "query"
  /\ pending = {}
  /\ m_finished
  /\ fi' = fi + 1
  /\ apc' = "feature"
  /\ UNCHANGED <<alayer, aux, entries, gi, pending, m_index, m_finished, pass, alayer0, writes>>
  /\ UNCHANGED uvars

\* the feature has no more geometry: adminize_feature returns
EndFeature ==
  /\ apc = "geom"
  /\ gi > Len(alayer[fi].paths)
  /\ fi' = fi + 1
  /\ apc' = "feature"
  /\ UNCHANGED <<alayer, aux, entries, gi, pending, m_index, m_finished, pass, alayer0, writes>>
  /\ UNCHANGED uvars

\* the layer has no more feature: process returns
AdminReturn ==
  /\ apc = "feature"
  /\ fi > Len(alayer)
  /\ apc' = "done"
  /\ UNCHANGED <<alayer, aux, entries, fi, gi, pending, m_index, m_finished, pass, alayer0, writes>>
  /\ UNCHANGED uvars

AdminNext ==
  \/ MakeEntries \/ BeginFeature \/ Query \/ Report \/ NextGeometry
  \/ QuickExit \/ EndFeature \/ AdminReturn

AdminSpec == AdminInit /\ [][AdminNext]_vars

\* ---- adminizer::process called again on the layer it returned
\* the layers of the runs that call process twice
TwiceLayerShapes == {<<2>>, <<1, 1>>}

AdminTwiceInit == AdminEnter(AuxShapes, TwiceLayerShapes)

\* process has returned from its first call and is called again, with the
\* same datasource, on the layer it left
Rerun ==
  /\ apc = "done"
  /\ pass = 1
  /\ pass' = 2
  /\ apc' = "start"
  /\ alayer0' = alayer
  /\ writes' = [f \in DOMAIN writes |-> <<>>]
  /\ entries' = <<>>
  /\ fi' = 0 /\ gi' = 0 /\ pending' = {}
  /\ m_index' = 0 /\ m_finished' = FALSE
  /\ UNCHANGED <<alayer, aux>>
  /\ UNCHANGED uvars

AdminTwiceNext ==
  \/ MakeEntries \/ BeginFeature \/ Query \/ Report \/ NextGeometry
  \/ QuickExit \/ EndFeature \/ AdminReturn \/ Rerun

AdminTwiceSpec == AdminTwiceInit /\ [][AdminTwiceNext]_vars

\* ============================================================ properties
\* the places <<f, k>> of the geometries of a layer
Slots(l) == UNION {{<<f, k>> : k \in 1..Len(l[f].paths)} : f \in 1..Len(l)}

GeomAt(l, s) == l[s[1]].paths[s[2]]

TotalGeoms(l) == Cardinality(Slots(l))

\* how many geometries of the layer equal g
CountGeom(g, l) == Cardinality({s \in Slots(l) : GeomAt(l, s) = g})

GeomsOf(l) == {GeomAt(l, s) : s \in Slots(l)}

\* the points of a vertex sequence, without the commands
XY(verts) == [j \in 1..Len(verts) |-> <<verts[j].x, verts[j].y>>]

\* how many vertices of the layer lie on point p
CountVertex(p, l) ==
  Cardinality(UNION {{<<s, j>> : j \in {i \in 1..Len(GeomAt(l, s).verts) :
                                          XY(GeomAt(l, s).verts)[i] = p}} :
                     s \in Slots(l)})

CountInSeq(p, sq) == Cardinality({j \in 1..Len(sq) : sq[j] = p})

\* the end points of the line geometries of a layer
IsLine(g) == g.type \in {"LineString", "Unknown"} /\ Len(g.verts) > 1

EndPoints(l) ==
  UNION {{XY(g.verts)[1], XY(g.verts)[Len(g.verts)]} : g \in {h \in GeomsOf(l) : IsLine(h)}}

\* whether the feature carries a preserve-direction tag of the configuration
IsDirectional(feature) ==
  \E tag \in config.m_preserve_direction_tags : feature.attrs[tag] # Absent

Spliced == last.op = "splice"

\* the two geometries of the last splice, as they were before it
GA == last.before[last.a.m_parent].paths[last.a.m_index]

GB == last.before[last.b.m_parent].paths[last.b.m_index]

FeatA == last.before[last.a.m_parent]

FeatB == last.before[last.b.m_parent]

\* ---------------------------------------------------------------- C1
\* C1: when process has returned, no feature of the layer has zero
\* geometries.
C1_Culled ==
  pc = "done" => \A f \in 1..Len(layer) : Len(layer[f].paths) > 0

\* process ran out of iterations after a splice that emptied a feature, on a
\* layer that already held an empty feature
C1_Witness ==
  /\ pc = "done"
  /\ last.op = "ranout"
  /\ joins # <<>>
  /\ \E f \in 1..Len(layer0) : layer0[f].paths = <<>>
  /\ Len(layer) = Len(layer0) - 2

\* ---------------------------------------------------------------- C2
\* C2: after every splice of ga and gb the layer holds one geometry less;
\* ga and gb are gone from it and one merged geometry of |ga| + |gb| - 1
\* vertices, held by the destination feature, has come in their place;
\* every other geometry is still there.
C2_OneMerged ==
  Spliced =>
    /\ TotalGeoms(layer) = TotalGeoms(last.before) - 1
    /\ \E k \in 1..Len(layer[last.a.m_parent].paths) :
         LET m == layer[last.a.m_parent].paths[k]
         IN /\ Len(m.verts) = Len(GA.verts) + Len(GB.verts) - 1
            /\ \A g \in GeomsOf(layer) \cup GeomsOf(last.before) :
                 CountGeom(g, layer) =
                   CountGeom(g, last.before)
                   - (IF g = GA THEN 1 ELSE 0) - (IF g = GB THEN 1 ELSE 0)
                   + (IF g = m THEN 1 ELSE 0)

\* ---------------------------------------------------------------- C3
\* C3: within one iteration a feature takes part in at most one splice, and
\* a pair that names a feature already used is skipped, not spliced.
C3_OneMergePerIteration ==
  /\ \A f \in DOMAIN merges : merges[f] <= 1
  /\ last.op = "skip" =>
       /\ merges[last.a.m_parent] = 1 \/ merges[last.b.m_parent] = 1
       /\ layer = last.before

\* a pair was skipped because of an earlier splice of the same iteration
C3_Witness ==
  /\ last.op = "skip"
  /\ \E f \in DOMAIN merges : merges[f] = 1
  /\ \E f \in DOMAIN merges : merges[f] = 0

\* ---------------------------------------------------------------- C4
\* C4: when both features of a spliced pair are directional, the merged
\* geometry is the linestring joined at its back followed by the one joined
\* at its front without its first vertex.
C4_DirectionKept ==
  (Spliced /\ IsDirectional(FeatA) /\ IsDirectional(FeatB)) =>
    /\ last.a.m_position # last.b.m_position
    /\ LET back == IF last.a.m_position = BACK THEN GA ELSE GB
           front == IF last.a.m_position = BACK THEN GB ELSE GA
           merged == XY(back.verts) \o Tail(XY(front.verts))
       IN \E g \in GeomsOf(layer) :
            /\ XY(g.verts) = merged
            /\ CountGeom(g, layer) = CountGeom(g, last.before) + 1

\* two directional linestrings of three vertices were joined, the second of
\* the layer at its back, the first at its front
C4_Witness ==
  /\ Spliced /\ IsDirectional(FeatA) /\ IsDirectional(FeatB)
  /\ last.a.m_parent > last.b.m_parent
  /\ Len(GA.verts) = 3 /\ Len(GB.verts) = 3

\* ---------------------------------------------------------------- C5
\* the ends <<f, k, position>> of the linestrings of more than one vertex of
\* the features that have geometry and every match tag
Ends(l) ==
  {e \in UNION {{<<s[1], s[2], pos>> : pos \in {FRONT, BACK}} : s \in Slots(l)} :
     /\ \A tag \in config.m_match_tags : l[e[1]].attrs[tag] # Absent
     /\ l[e[1]].paths[e[2]].type = "LineString"
     /\ Len(l[e[1]].paths[e[2]].verts) > 1}

EndXY(l, e) ==
  LET pts == XY(l[e[1]].paths[e[2]].verts)
  IN IF e[3] = FRONT THEN pts[1] ELSE pts[Len(pts)]

\* two different ends on one point whose features agree on every match tag
Adjacent(l, e1, e2) ==
  /\ e1 # e2
  /\ EndXY(l, e1) = EndXY(l, e2)
  /\ \A tag \in config.m_match_tags : l[e1[1]].attrs[tag] = l[e2[1]].attrs[tag]

\* the compatibility filter: a ring, a directional end with one that is not,
\* or two directional ends of the same position
Rejected(l, e1, e2) ==
  \/ e1[1] = e2[1] /\ e1[2] = e2[2]
  \/ IsDirectional(l[e1[1]]) # IsDirectional(l[e2[1]])
  \/ IsDirectional(l[e1[1]]) /\ e1[3] = e2[3]

OnlyRejected(l) ==
  \A e1 \in Ends(l), e2 \in Ends(l) : Adjacent(l, e1, e2) => Rejected(l, e1, e2)

EndOf(c) == <<c.m_parent, c.m_index, c.m_position>>

NoRejectedSplice ==
  Spliced =>
    /\ Adjacent(last.before, EndOf(last.a), EndOf(last.b))
    /\ ~Rejected(last.before, EndOf(last.a), EndOf(last.b))

WithoutEmpty(l) == SelectSeq(l, LAMBDA feature : feature.paths # <<>>)

\* C5 as stated: no splice of a pair the compatibility filter rejects, and
\* when such pairs are the only adjacent ones process returns the layer
\* exactly as it was.
C5_AsStated ==
  /\ NoRejectedSplice
  /\ (pc = "done" /\ OnlyRejected(layer0)) => layer = layer0

\* C5 (amended): no splice of a pair the compatibility filter rejects, and
\* when such pairs are the only adjacent ones process returns the layer as
\* it was but for the features without geometry, which it removes.
C5_RejectedNeverSpliced ==
  /\ NoRejectedSplice
  /\ (pc = "done" /\ OnlyRejected(layer0)) => layer = WithoutEmpty(layer0)

\* process has returned on a layer whose only adjacent ends were two
\* directional backs and at least one iteration was run
C5_Witness ==
  /\ pc = "done"
  /\ last.op = "converged"
  /\ OnlyRejected(layer0)
  /\ \E e1 \in Ends(layer0), e2 \in Ends(layer0) :
       /\ Adjacent(layer0, e1, e2)
       /\ e1[1] # e2[1]
       /\ IsDirectional(layer0[e1[1]]) /\ IsDirectional(layer0[e2[1]])
       /\ e1[3] = BACK /\ e2[3] = BACK

\* ---------------------------------------------------------------- C6
\* the attributes of the destination feature after the last splice
AttrsAfter == layer[last.a.m_parent].attrs

\* C6: under intersect, after a splice of destination A and other B, a key
\* of A that B lacks or holds with another value is null on A, a key they
\* agree on keeps its value, and a key only B has does not appear on A.
C6_Intersect ==
  (Spliced /\ config.m_strategy = INTERSECT) =>
    \A key \in Keys :
      LET va == FeatA.attrs[key]
          vb == FeatB.attrs[key]
      IN /\ (va # Absent /\ (vb = Absent \/ vb # va)) => AttrsAfter[key] = Null
         /\ (va # Absent /\ vb = va) => AttrsAfter[key] = va
         /\ va = Absent => AttrsAfter[key] = Absent

\* an intersect splice where A has a key B lacks, B has a key A lacks and
\* they agree on a third key
C6_Witness ==
  /\ Spliced /\ config.m_strategy = INTERSECT
  /\ FeatA.attrs["ref"] # Absent /\ FeatB.attrs["ref"] = Absent
  /\ FeatA.attrs["name"] = Absent /\ FeatB.attrs["name"] # Absent
  /\ FeatA.attrs["road"] = FeatB.attrs["road"]

\* ---------------------------------------------------------------- C7
\* C7 as stated: under accumulate, after a splice a key of A that B does not
\* have is null on A, as is a key whose values differ, and every key of B
\* that A did not have is on A with B's value.
C7_AsStated ==
  (Spliced /\ config.m_strategy = ACCUMULATE) =>
    \A key \in Keys :
      LET va == FeatA.attrs[key]
          vb == FeatB.attrs[key]
      IN /\ (va # Absent /\ (vb = Absent \/ vb # va)) => AttrsAfter[key] = Null
         /\ (va = Absent /\ vb # Absent) => AttrsAfter[key] = vb

\* C7 (amended): under accumulate, after a splice a key of A that B does not
\* have keeps its value on A, a key whose values differ is null on A, a key
\* they agree on keeps its value, and every key of B that A did not have is
\* on A with B's value.
C7_Accumulate ==
  (Spliced /\ config.m_strategy = ACCUMULATE) =>
    \A key \in Keys :
      LET va == FeatA.attrs[key]
          vb == FeatB.attrs[key]
      IN /\ (va # Absent /\ vb = Absent) => AttrsAfter[key] = va
         /\ (va # Absent /\ vb # Absent /\ vb # va) => AttrsAfter[key] = Null
         /\ (va # Absent /\ vb = va) => AttrsAfter[key] = va
         /\ (va = Absent /\ vb # Absent) => AttrsAfter[key] = vb
         /\ (va = Absent /\ vb = Absent) => AttrsAfter[key] = Absent

\* an accumulate splice where A has a key B lacks, B has a key A lacks and
\* they agree on a third key
C7_Witness ==
  /\ Spliced /\ config.m_strategy = ACCUMULATE
  /\ FeatA.attrs["ref"] # Absent /\ FeatB.attrs["ref"] = Absent
  /\ FeatA.attrs["name"] = Absent /\ FeatB.attrs["name"] # Absent
  /\ FeatA.attrs["road"] = FeatB.attrs["road"]

\* ---------------------------------------------------------------- C8
PointsOf(l) == UNION {{XY(g.verts)[j] : j \in 1..Len(g.verts)} : g \in GeomsOf(l)}

\* C8: when process has returned, every end point of a line of the layer was
\* an end point of a line before the call, and the vertices of the layer are
\* those of before the call less one copy of the join point of every splice.
C8_GeometryConserved ==
  pc = "done" =>
    /\ EndPoints(layer) \subseteq EndPoints(layer0)
    /\ \A p \in PointsOf(layer0) \cup PointsOf(layer) :
         CountVertex(p, layer) = CountVertex(p, layer0) - CountInSeq(p, joins)

\* ---- adminizer
\* the entries (by their place in the vector, from 1) whose polygon intersects
\* a geometry the feature came with
Hits(f) ==
  {i \in 1..Len(entries) :
     \E k \in 1..Len(alayer0[f].paths) :
       intersects(alayer0[f].paths[k], entries[i].polygon)}

LowestHit(f) == CHOOSE i \in Hits(f) : \A j \in Hits(f) : i <= j

\* C9: when the adminizer's process has returned, every feature whose
\* geometries intersect the polygon of some entry holds under param_name the
\* value of the entry of least index among those, whichever order the index
\* reported them in; a feature that no entry intersects was never written and
\* has the attributes it came with.
C9_LowestWins ==
  apc = "done" =>
    \A f \in 1..Len(alayer) :
      IF Hits(f) = {}
      THEN writes[f] = <<>> /\ alayer[f].attrs = alayer0[f].attrs
      ELSE /\ alayer[f].attrs[param_name] = entries[LowestHit(f)].value
           /\ writes[f] # <<>>
           /\ writes[f][Len(writes[f])] = entries[LowestHit(f)].index

\* process has returned; one feature was hit by entries of different values
\* and written more than once, another was hit by none
C9_Witness ==
  /\ apc = "done"
  /\ \E f \in 1..Len(alayer) :
       /\ Len(writes[f]) >= 2
       /\ \E i, j \in Hits(f) : entries[i].value # entries[j].value
       /\ alayer[f].attrs[param_name] = entries[LowestHit(f)].value
  /\ \E f \in 1..Len(alayer) : Hits(f) = {} /\ entries # <<>>

\* C10: the indices of the entries written to one feature, in the order they
\* were written, are strictly decreasing: a value written with index k is only
\* overwritten by one of an index below k.
C10_Monotone ==
  \A f \in 1..Len(writes) :
    \A m, n \in 1..Len(writes[f]) : m < n => writes[f][m] > writes[f][n]

\* a query is running on a feature that has been written three times
C10_Witness ==
  /\ apc = "query"
  /\ Len(writes[fi]) >= 3
  /\ writes[fi][3] = 0


C12_Idempotent ==
  (pass = 2 /\ apc = "done") => alayer = alayer0

\* the second call has returned; in it a feature that already held a value
\* from the first call was written twice
C12_Witness ==
  /\ pass = 2 /\ apc = "done"
  /\ \E f \in 1..Len(alayer) :
       /\ alayer0[f].attrs[param_name] # Absent
       /\ Len(writes[f]) >= 2


\* ---- unionizer, continued
\* the candidates process would get on a layer
CandidatesOn(l) ==
  get_candidates(l, config.m_match_tags, config.m_preserve_direction_tags,
                 config.m_heuristic, xy_distance(map, config.m_angle_union_sample_ratio))

\* the couples a greedy process would score on a layer
CouplesOn(l) ==
  score_candidates(l, config.m_match_tags, GREEDY, CandidatesOn(l), "wraps")

\* C13: when process returns because a turn of its loop made no splice, the
\* layer it returns holds no compatible pair of candidates; a second call on
\* that layer runs one turn of the loop, makes no splice and returns the
\* layer as it was given.
C13_FixedPoint ==
  /\ (pc = "done" /\ last.op = "converged") => CouplesOn(layer) = <<>>
  /\ (pc = "done" /\ returns = <<"converged">>) =>
       /\ last.op = "converged"
       /\ passes = 1
       /\ joins = <<>>
       /\ layer = layer0

\* the second call has returned, the first one having returned, after a
\* splice, at a turn that made none
C13_Witness ==
  /\ pc = "done" /\ returns = <<"converged">>
  /\ passes = 1
  /\ \E f \in 1..Len(layer) :
       \E k \in 1..Len(layer[f].paths) : Len(layer[f].paths[k].verts) = 3


\* C15: one call of process begins at most max_iterations turns of its loop,
\* begins a further turn only after a turn that made a splice, and with
\* max_iterations = 0 makes no splice and returns the layer as it was but
\* for the features without geometry.
C15_HardCap ==
  /\ passes <= config.m_max_iterations
  /\ (pc = "loop" /\ passes > 0) => unioned # {}
  /\ (pc = "done" /\ last.op = "converged") => unioned = {}
  /\ (pc = "done" /\ config.m_max_iterations = 0) =>
       /\ passes = 0
       /\ joins = <<>>
       /\ layer = WithoutEmpty(layer0)

\* process has returned for want of iterations, every turn allowed having
\* made a splice, with a compatible pair still in the layer
C15_Witness ==
  /\ pc = "done" /\ last.op = "ranout"
  /\ config.m_max_iterations >= 1
  /\ passes = config.m_max_iterations
  /\ Len(joins) = passes
  /\ CouplesOn(layer) # <<>>


\* C14: create_unionizer throws, and makes no unionizer, when
\* union_heuristic is given and is none of greedy, obtuse, acute, when
\* tag_strategy is given and is none of intersect, accumulate, or when
\* angle_union_sample_ratio is given outside (0, .5]; given no key at all
\* it makes a unionizer of heuristic greedy, strategy intersect, ratio .1
\* and the greatest iteration cap there is.
C14_CreateChecks ==
  pc \in {"created", "thrown"} =>
    LET unknown_heuristic ==
          \E h \in ptree.union_heuristic : h \notin {"greedy", "obtuse", "acute"}
        unknown_strategy ==
          \E t \in ptree.tag_strategy : t \notin {"intersect", "accumulate"}
        ratio_out_of_range ==
          \E r \in ptree.angle_union_sample_ratio : ~(0 < r /\ r <= 50)
    IN /\ (unknown_heuristic \/ unknown_strategy \/ ratio_out_of_range) =>
            pc = "thrown" /\ config = NoIzer
       /\ ptree = NoTree =>
            /\ pc = "created"
            /\ config.m_heuristic = GREEDY
            /\ config.m_strategy = INTERSECT
            /\ config.m_angle_union_sample_ratio = 10
            /\ config.m_max_iterations = SIZE_MAX

\* create_unionizer has thrown on a tree whose only fault is a ratio of 0
C14_Witness ==
  /\ pc = "thrown"
  /\ ptree.union_heuristic = Some("acute")
  /\ ptree.tag_strategy = Some("accumulate")
  /\ ptree.angle_union_sample_ratio = Some(0)


\* ---------------------------------------------------------------- C16
\* a layer of two features, each of one linestring
TwoLines(l) ==
  /\ Len(l) = 2
  /\ \A f \in 1..2 :
       /\ Len(l[f].paths) = 1
       /\ l[f].paths[1].type = "LineString"
       /\ Len(l[f].paths[1].verts) >= 2

\* the last vertex of the linestring of feature f is the first one of the
\* linestring of feature g
MeetsAt(l, f, g) ==
  /\ f # g
  /\ XY(l[f].paths[1].verts)[Len(l[f].paths[1].verts)] = XY(l[g].paths[1].verts)[1]

\* both features carry every match tag, with equal values
SameMatchTags(l) ==
  \A tag \in config.m_match_tags :
    /\ has_key(l[1], tag) /\ has_key(l[2], tag)
    /\ get(l[1], tag) = get(l[2], tag)

\* the layer with its two features in the other order
Swapped(l) == <<l[2], l[1]>>

\* what process returns on a layer of two features of one linestring each:
\* the first scored couple is united, which leaves no couple to score
ProcessTwo(l) ==
  LET couples == CouplesOn(l)
  IN IF couples = <<>> THEN cull(l)
     ELSE LET r == CHOOSE r \in do_union(l, couples[1].couple) : ~r.crashed
          IN cull(sanitize_tags(r.layer, config.m_strategy, r.couple))

\* the geometries and attributes of the features of a layer
Content(l) == [f \in 1..Len(l) |-> [paths |-> l[f].paths, attrs |-> l[f].attrs]]

\* the layer process was given is one of those C16 is about
C16_Given ==
  /\ returns = <<>>
  /\ TwoLines(layer0)
  /\ \E f, g \in 1..2 : MeetsAt(layer0, f, g)
  /\ SameMatchTags(layer0)
  /\ config.m_heuristic = GREEDY /\ config.m_strategy = INTERSECT
  /\ config.m_max_iterations >= 1

\* process returned one feature of one linestring, made of the vertices of
\* one linestring followed by those of the other without the join point,
\* with the match tags kept, and the same as for the other order of the
\* two features
C16_Joined ==
  /\ Len(layer) = 1
  /\ Len(layer[1].paths) = 1
  /\ \E f, g \in 1..2 :
       /\ MeetsAt(layer0, f, g)
       /\ XY(layer[1].paths[1].verts) =
            XY(layer0[f].paths[1].verts) \o Tail(XY(layer0[g].paths[1].verts))
  /\ \A tag \in config.m_match_tags : get(layer[1], tag) = get(layer0[1], tag)
  /\ Content(layer) = Content(ProcessTwo(Swapped(layer0)))

BothClosedOnJoin(l) ==
  /\ MeetsAt(l, 1, 2) /\ MeetsAt(l, 2, 1)
  /\ XY(l[1].paths[1].verts)[1] = XY(l[2].paths[1].verts)[1]

MergedXY(a, b, pa, pb) ==
  IF pa = BACK /\ pb = FRONT THEN XY(a.verts) \o Tail(XY(b.verts))
  ELSE IF pa = BACK /\ pb = BACK THEN XY(a.verts) \o Tail(Reverse(XY(b.verts)))
  ELSE Reverse(XY(a.verts)) \o Tail(XY(b.verts))

\* C18: the linestring a splice leaves in the destination feature is, back
\* of a with front of b: a's vertices then b's without its first; back with
\* back: a's vertices then b's from its last but one down to its first;
\* front with front: a's vertices reversed then b's without its first. It
\* has |a| + |b| - 1 vertices, the first a MoveTo and the others LineTo.
C18_MergedSequence ==
  Spliced =>
    /\ ~(last.a.m_position = FRONT /\ last.b.m_position = BACK)
    /\ \E k \in 1..Len(layer[last.a.m_parent].paths) :
         LET m == layer[last.a.m_parent].paths[k].verts
         IN /\ XY(m) = MergedXY(GA, GB, last.a.m_position, last.b.m_position)
            /\ Len(m) = Len(GA.verts) + Len(GB.verts) - 1
            /\ m[1].cmd = "MoveTo"
            /\ \A j \in 2..Len(m) : m[j].cmd = "LineTo"

\* two linestrings of three vertices that do not read the same forwards and
\* backwards were spliced back to back
C18_Witness ==
  /\ Spliced
  /\ last.a.m_position = BACK /\ last.b.m_position = BACK
  /\ Len(GA.verts) = 3 /\ Len(GB.verts) = 3
  /\ XY(GB.verts) # Reverse(XY(GB.verts))


\* ---------------------------------------------------------------- C19
\* every compatible pair of adjacent candidates of a layer
AllCouples(l) ==
  LET cs == couples_from(l, config.m_match_tags, CandidatesOn(l), 1)
  IN {cs[n] : n \in 1..Len(cs)}

\* C19: when union_candidates has walked the scored couples of an
\* iteration, no compatible pair of adjacent candidates is left whose two
\* features are both untouched: every such pair was spliced, two pairs of
\* equal score over four features included.
C19_AllPairsSpliced ==
  (pc = "union" /\ scored = <<>>) =>
    \A couple \in AllCouples(layer) : couple_ids(layer, couple) \cap unioned # {}


\* ---------------------------------------------------------------- C20
\* the union of the envelopes of all the features of a layer
UnionOfEnvelopes(l) == Box(UNION {feature_envelope(l[f]) : f \in 1..Len(l)})

\* C20: the envelope the adminizer's process queries the datasource with
\* contains the envelope of every feature of the layer: it is the union of
\* them all, and the entries are those made for that union.
C20_EnvelopeOfAll ==
  apc # "start" =>
    /\ \A f \in 1..Len(alayer0) : feature_envelope(alayer0[f]) \subseteq envelope(alayer0)
    /\ envelope(alayer0) = UnionOfEnvelopes(alayer0)
    /\ entries = make_entries(aux, UnionOfEnvelopes(alayer0))


\* ---------------------------------------------------------------- C21
\* the places <<f, k>> of the polygons of a feature set
PolygonSlots(fset) ==
  {s \in UNION {{<<f, k>> : k \in 1..Len(fset[f].paths)} : f \in 1..Len(fset)} :
     fset[s[1]].paths[s[2]].type = "Polygon"}

\* how many polygons of the feature set come before place s
PolygonsBefore(fset, s) ==
  Cardinality({t \in PolygonSlots(fset) :
                 t[1] < s[1] \/ (t[1] = s[1] /\ t[2] < s[2])})

\* C21: the entries are the polygons of the features the datasource
\* returned, in the order of the features and of their geometries, and no
\* other geometry; the k-th entry (from 0) has index k and the value of
\* param_name of the feature its polygon is of, and the spatial index holds
\* for it one value: its box, with position k. (The entries are made once
\* and never changed: they are looked at ahead of every feature and at the
\* return of process.)
C21_EntryNumbering ==
  apc \in {"feature", "done"} =>
    LET fset == datasource_features(aux, envelope(alayer0))
        slots == PolygonSlots(fset)
        index == make_index(entries)
    IN /\ Len(entries) = Cardinality(slots)
       /\ \A s \in slots :
            LET k == PolygonsBefore(fset, s)
            IN entries[k + 1] = [polygon |-> fset[s[1]].paths[s[2]].cells,
                                 value |-> fset[s[1]].value,
                                 index |-> k]
       /\ \A k \in 0..(Len(entries) - 1) :
            {v \in index : v[2] = k} = {<<Box(entries[k + 1].polygon), k>>}
       /\ \A v \in index : v[2] \in 0..(Len(entries) - 1)

\* the entries were made from a datasource whose first feature has two
\* polygons and whose second feature, a linestring, gave none
C21_Witness ==
  /\ apc = "feature"
  /\ Len(aux) = 2
  /\ aux[2].paths[1].type = "LineString"
  /\ Len(entries) = 2
  /\ entries[1].value = aux[1].value /\ entries[2].value = aux[1].value
  /\ entries[1].polygon # entries[2].polygon


\* ---------------------------------------------------------------- C22
\* geometry k of feature f intersects the polygon of the entry of index 0
HitsFirstEntry(f, k) ==
  /\ entries # <<>>
  /\ intersects(alayer0[f].paths[k], entries[1].polygon)

\* C22: while a feature is being adminized its updater is finished exactly
\* when its best index is 0. The loop over the geometries is at geometry gi
\* having queried every geometry before it, none of which intersects the
\* entry of index 0. When adminize_feature has returned finished, the last
\* geometry queried is the first one of the feature that intersects the
\* entry of index 0, no geometry after it was queried, and the write of
\* index 0 is the last write of the feature; when it has returned not
\* finished, every geometry was queried and the best index is above 0.
C22_ShortCircuit ==
  /\ apc \in {"geom", "query"} =>
       /\ m_finished <=> m_index = 0
       /\ apc = "geom" => ~m_finished
       /\ gi <= Len(alayer[fi].paths) + 1
       /\ \A k \in 1..(gi - 1) : ~HitsFirstEntry(fi, k)
       /\ m_finished => HitsFirstEntry(fi, gi)
  /\ (apc = "feature" /\ fi > 1) =>
       LET f == fi - 1
           n == Len(alayer[f].paths)
       IN /\ m_finished <=> m_index = 0
          /\ m_finished =>
               /\ gi <= n
               /\ HitsFirstEntry(f, gi)
               /\ \A k \in 1..(gi - 1) : ~HitsFirstEntry(f, k)
               /\ writes[f] # <<>> /\ writes[f][Len(writes[f])] = 0
          /\ ~m_finished =>
               /\ gi = n + 1
               /\ \A k \in 1..n : ~HitsFirstEntry(f, k)
  /\ \A f \in 1..Len(writes) :
       \A m \in 1..(Len(writes[f]) - 1) : writes[f][m] # 0

\* adminize_feature has returned finished from the first geometry of a
\* feature of two, after two writes; the second geometry, never queried,
\* intersects an entry as well
C22_Witness ==
  /\ apc = "feature" /\ fi = 2
  /\ m_finished
  /\ gi = 1
  /\ Len(alayer[1].paths) = 2
  /\ Len(writes[1]) = 2
  /\ \E i \in 1..Len(entries) : intersects(alayer0[1].paths[2], entries[i].polygon)


\* ---------------------------------------------------------------- C23
\* the greedy score of a pair of ends by their positions
GreedyClass(a, b) ==
  IF a.m_position # b.m_position THEN 0
  ELSE IF a.m_position = BACK THEN 127
  ELSE 255

\* C23: under the greedy heuristic every scored pair has score 0 when its
\* positions differ, 127 when both are back and 255 when both are front; the
\* pairs still to be attempted are in strictly ascending order of score, and
\* every one of them has a greater score than the pair just spliced or
\* skipped: within an iteration front-back comes before back-back, and
\* back-back before front-front.
C23_GreedyOrder ==
  config.m_heuristic = GREEDY =>
    /\ \A n \in 1..Len(scored) :
         /\ scored[n].score = GreedyClass(scored[n].couple.first, scored[n].couple.second)
         /\ \A m \in 1..(n - 1) : scored[m].score < scored[n].score
    /\ (pc = "union" /\ last.op \in {"splice", "skip"}) =>
         \A n \in 1..Len(scored) : GreedyClass(last.a, last.b) < scored[n].score

\* in one iteration a front-back pair was spliced, then a back-back pair of
\* two other features, and a front-front pair is still to come
C23_Witness ==
  /\ pc = "union" /\ last.op = "splice"
  /\ iter = 0 /\ Len(joins) = 2
  /\ last.a.m_position = BACK /\ last.b.m_position = BACK
  /\ Len(scored) = 1
  /\ scored[1].score = 255


\* ---------------------------------------------------------------- C24
\* the double obtuse_score computes for the couple converts to a score
InRange(couple) == Truncate(obtuse_value(couple)) \in 0..MAX_SCORE

C25_ScoreInRange ==
  config.m_heuristic \in {OBTUSE, ACUTE} =>
    \A couple \in AllCouples(layer) : ~degenerate(couple) => InRange(couple)


\* ---------------------------------------------------------------- C26
\* the vertex of a linestring at one of its ends
EndVertex(g, position) ==
  IF position = FRONT THEN g.verts[1] ELSE g.verts[Len(g.verts)]

\* some two different ends of the layer lie on one point and their features
\* agree on every match tag
SomeAdjacent(l) ==
  \E e1 \in Ends(l), e2 \in Ends(l) : Adjacent(l, e1, e2)

\* C26: the two geometries of every splice are linestrings of more than one
\* vertex; the ends joined have the same x and the same y, and the two
\* features have every match tag, with equal values. When no two ends of
\* the layer are on one point with equal match tags, process returns
\* without having made a splice.
C26_JoinedAtEqualEnds ==
  /\ Spliced =>
       LET ea == EndVertex(GA, last.a.m_position)
           eb == EndVertex(GB, last.b.m_position)
       IN /\ GA.type = "LineString" /\ Len(GA.verts) > 1
          /\ GB.type = "LineString" /\ Len(GB.verts) > 1
          /\ ea.x = eb.x /\ ea.y = eb.y
          /\ joins[Len(joins)] = <<ea.x, ea.y>>
          /\ \A tag \in config.m_match_tags :
               /\ FeatA.attrs[tag] # Absent
               /\ FeatA.attrs[tag] = FeatB.attrs[tag]
  /\ (pc = "done" /\ joins # <<>>) => SomeAdjacent(layer0)

\* two linestrings were spliced at a point where a linestring of another
\* value of the match tag ends as well, while a linestring of their own
\* value ends at the same x and another y
C26_Witness ==
  /\ Spliced
  /\ Len(last.before) = 4
  /\ \E f \in 1..4 :
       /\ f \notin {last.a.m_parent, last.b.m_parent}
       /\ last.before[f].attrs["road"] # FeatA.attrs["road"]
       /\ \E p \in {FRONT, BACK} :
            /\ EndVertex(last.before[f].paths[1], p).x = last.a.m_x
            /\ EndVertex(last.before[f].paths[1], p).y = last.a.m_y
  /\ \E f \in 1..4 :
       /\ f \notin {last.a.m_parent, last.b.m_parent}
       /\ last.before[f].attrs["road"] = FeatA.attrs["road"]
       /\ \E p \in {FRONT, BACK} :
            /\ EndVertex(last.before[f].paths[1], p).x = last.a.m_x
            /\ EndVertex(last.before[f].paths[1], p).y # last.a.m_y


\* ---------------------------------------------------------------- C27
\* how many linestrings a layer holds
LineCount(l) ==
  Cardinality({s \in Slots(l) : GeomAt(l, s).type = "LineString"})

\* C27 as stated, its bound: a call of process begins at most as many turns
\* of its loop as the layer had linestrings on entry.
C27_AsStated == passes <= LineCount(layer0)

\* what holds of every state of a call of process
C27_Bound ==
  /\ pc # "crashed" => TotalGeoms(layer) = TotalGeoms(layer0) - Len(joins)
  /\ pc = "loop" => Len(joins) >= passes
  /\ (pc = "done" /\ last.op = "converged") => Len(joins) >= passes - 1
  /\ passes <= (IF LineCount(layer0) = 0 THEN 1 ELSE LineCount(layer0))

\* C27 (amended): with max_iterations at its greatest value process comes
\* to an end on every layer. Every splice lowers the number of geometries of
\* the layer by one, every turn of the loop but the last makes a splice, and
\* the turns begun are at most the linestrings the layer had on entry, or
\* one when it had none.
C27_Terminates ==
  /\ []C27_Bound
  /\ <>Ended

\* process has returned after three turns of its loop on a layer of three
\* linestrings: two turns made a splice each and the third none
C27_Witness ==
  /\ pc = "done" /\ last.op = "converged"
  /\ config.m_max_iterations = SIZE_MAX
  /\ LineCount(layer0) = 3
  /\ passes = 3
  /\ Len(joins) = 2


\* ---------------------------------------------------------------- C28
\* a point, a polygon or a linestring of fewer than 2 vertices
Bystander(g) ==
  \/ g.type \in {"Point", "Polygon"}
  \/ g.type = "LineString" /\ Len(g.verts) < 2

\* the geometries of a feature that are such, in their order
Bystanders(feature) == SelectSeq(feature.paths, Bystander)

\* how many geometries of the feature equal g
CountIn(g, feature) ==
  Cardinality({k \in 1..Len(feature.paths) : feature.paths[k] = g})

\* what a splice leaves alone: every feature other than the two parents,
\* every geometry of the parents other than the two linestrings, and the
\* attributes of the feature the consumed linestring was in
SpliceFrame ==
  LET before == last.before
      a == last.a
      b == last.b
      ga == before[a.m_parent].paths[a.m_index]
      gb == before[b.m_parent].paths[b.m_index]
  IN /\ \A f \in 1..Len(before) :
          f \notin {a.m_parent, b.m_parent} => layer[f] = before[f]
     /\ \A f \in {a.m_parent, b.m_parent} :
          /\ Bystanders(layer[f]) = Bystanders(before[f])
          /\ \A k \in 1..Len(before[f].paths) :
               before[f].paths[k] \notin {ga, gb} =>
                 CountIn(before[f].paths[k], layer[f]) >=
                   CountIn(before[f].paths[k], before[f])
     /\ b.m_parent # a.m_parent =>
          layer[b.m_parent].attrs = before[b.m_parent].attrs

\* what a whole call leaves alone: a feature that lacks a match tag, if it
\* has a geometry, is in the layer returned as it was, and the geometries of
\* a feature that are no linestrings of 2 vertices or more are in the feature
\* of that id
ProcessFrame ==
  \A f0 \in 1..Len(layer0) :
    LET feature == layer0[f0]
    IN /\ (~(\A key \in config.m_match_tags : has_key(feature, key))
             /\ num_geometries(feature) # 0) =>
            \E f \in 1..Len(layer) : layer[f] = feature
       /\ Bystanders(feature) # <<>> =>
            \E f \in 1..Len(layer) :
              /\ layer[f].id = feature.id
              /\ Bystanders(layer[f]) = Bystanders(feature)

\* C28: process removes or alters no geometry other than the two linestrings
\* of a spliced pair: points, polygons, linestrings of fewer than 2 vertices
\* and the features that lack a match tag are after process as they were
\* before (but for the features without geometry, which are removed), and
\* the attributes of the consumed side of a splice are not written.
C28_Frame ==
  /\ last.op = "splice" => SpliceFrame
  /\ pc = "done" => ProcessFrame

==============================================================================
